---- MODULE Spec2Model ----
(***************************************************************************)
(* The model presentation state machine of 3JS-Model-Loader:               *)
(* src/modelClass.js (class Model, VISTAS) and the part of                 *)
(* src/modelLoader.js that assigns the loaded scene and runs the frame     *)
(* loop.  The scene graph is a tree of nodes; the scene-engine calls the   *)
(* class makes (traverse, add, remove, getObjectByName, lookAt,            *)
(* rotateOnAxis) are modelled by what they do to that tree.                *)
(***************************************************************************)
EXTENDS Integers, Sequences, FiniteSets, TLC

VARIABLES
  object,        \* this._object: the scene subgraph the Model controls
  vista,         \* this._vista: target orientation, a degree triple
  viewChange,    \* this._viewChange: the orientation dirty flag
  modo,          \* this._modo: desired presentation flags
  modoOldState,  \* this._modoOldState: last applied presentation flags
  loadState,     \* position of the load-completion callback
  last,          \* the operation that produced this state
  wireBase,      \* history: node structure just before the latest wireframe off->on
  hist,          \* history: writes since the latest updateModel (recorded when hist.on)
  loader         \* displayModelOnWebpage: its request, promise, console and frame loop

vars ==
  <<object, vista, viewChange, modo, modoOldState, loadState, last, wireBase, hist, loader>>

(***************************************************************************)
(* Bounds of the model.                                                    *)
(***************************************************************************)
MaxMeshes == 2     \* flat scenes hold 0..MaxMeshes sibling meshes
MaxDepth == 2      \* nested scenes hold a chain of 2..MaxDepth meshes
MaxOverlays == 2   \* wireframe is not switched on again once a mesh carries this many overlays
MaxPending == 2    \* setter calls recorded between two updateModel calls

(***************************************************************************)
(* Numbers.  A number is coef * times, times being 1 or pi/180, so that a  *)
(* degree value and its radian conversion are different numbers unless     *)
(* both are zero.                                                          *)
(***************************************************************************)
Number(n) == [coef |-> n, times |-> "1"]

degreesToRadians(degrees) ==
  IF degrees.coef = 0 THEN Number(0)
  ELSE [coef |-> degrees.coef, times |-> "pi/180"]

Vector3(x, y, z) == [x |-> x, y |-> y, z |-> z]

VISTAS ==
  [ FRONTAL    |-> Vector3(0, 0, 0),
    TRANSERA   |-> Vector3(90, 90, 0),
    IZQUIERO   |-> Vector3(90, 90, 90),
    DERECHA    |-> Vector3(180, 180, 180),
    ARRIBA     |-> Vector3(0, 0, 180),
    ABAJO      |-> Vector3(90, 180, 0),
    ISOMETRICA |-> Vector3(30, 30, 0) ]

\* The orientations the vista setter is given: named vistas and one explicit triple.
VistaInputs == {VISTAS.FRONTAL, VISTAS.ISOMETRICA, VISTAS.ARRIBA, Vector3(30, 0, 0)}

\* Camera positions passed to updateModel and used by the loader.
Cameras == {"camA", "camB"}

\* The node the asset's clip 'CubeAction' animates, and the orientations its
\* keyframes give that node.
ClipNodes == {"Scene", "meshA"}
ClipKeys == {"key0", "key1"}

(***************************************************************************)
(* Scene graph nodes.                                                      *)
(***************************************************************************)
NoGeometry == [kind |-> "none", of |-> "none"]
NoMaterial == [type |-> "none", transparent |-> FALSE, opacity |-> "1"]
MeshMaterial == [type |-> "MeshStandardMaterial", transparent |-> FALSE, opacity |-> "1"]
Identity == [base |-> "identity", rots |-> <<>>]

Node(type, name, kids) ==
  [type |-> type, name |-> name, geometry |-> NoGeometry,
   material |-> NoMaterial, children |-> kids, quaternion |-> Identity]

Mesh(name, kids) ==
  [type |-> "Mesh", name |-> name,
   geometry |-> [kind |-> "BufferGeometry", of |-> name],
   material |-> MeshMaterial, children |-> kids, quaternion |-> Identity]

\* child.isMesh
isMesh(node) == node.type = "Mesh"

\* new THREE.Object3D()
Object3D == Node("Object3D", "", <<>>)

\* new THREE.LineSegments(new THREE.WireframeGeometry(child.geometry),
\*                        new THREE.LineBasicMaterial(...)), named 'wireframe'
LineSegments(geometry) ==
  [type |-> "LineSegments", name |-> "wireframe",
   geometry |-> [kind |-> "WireframeGeometry", of |-> geometry.of],
   material |-> [type |-> "LineBasicMaterial", transparent |-> FALSE, opacity |-> "1"],
   children |-> <<>>, quaternion |-> Identity]

MeshName(i) == <<"meshA", "meshB", "meshC", "meshD">>[i]

\* gltf.scene holding n sibling meshes
FlatScene(n) == Node("Group", "Scene", [i \in 1..n |-> Mesh(MeshName(i), <<>>)])

\* a chain of meshes, mesh i holding mesh i+1 as its child
RECURSIVE MeshChain(_, _)
MeshChain(i, d) ==
  IF i = d THEN Mesh(MeshName(i), <<>>)
  ELSE Mesh(MeshName(i), <<MeshChain(i + 1, d)>>)

NestedScene(d) == Node("Group", "Scene", <<MeshChain(1, d)>>)

Scenes ==
  {FlatScene(n) : n \in 0..MaxMeshes} \cup {NestedScene(d) : d \in 2..MaxDepth}

(***************************************************************************)
(* Scene-engine operations used by the class.                              *)
(***************************************************************************)
\* Mutant of lookAt: the target is faced, but the rotations already applied are kept
lookAt_KeepsRotations(node, target) ==
  [node EXCEPT !.quaternion.base = target]

\* Object3D.lookAt(target): sets the orientation absolutely
lookAt(node, target) ==
  [node EXCEPT !.quaternion = [base |-> target, rots |-> <<>>]]

\* Object3D.rotateOnAxis(axis, angle): multiplies the orientation on the right;
\* angle is in radians
rotateOnAxis(node, axis, angle) ==
  IF angle.coef = 0 THEN node
  ELSE [node EXCEPT !.quaternion.rots = Append(@, [axis |-> axis, angle |-> angle])]

NotFound == [found |-> FALSE, path |-> <<>>]

\* Object3D.getObjectByName(name): the first match in depth-first pre-order,
\* the node itself included; the result is the path of child indices to it
RECURSIVE getObjectByName(_, _)
RECURSIVE FirstInChildren(_, _, _)
getObjectByName(node, name) ==
  IF node.name = name THEN [found |-> TRUE, path |-> <<>>]
  ELSE FirstInChildren(node.children, 1, name)

FirstInChildren(kids, i, name) ==
  IF i > Len(kids) THEN NotFound
  ELSE LET r == getObjectByName(kids[i], name)
       IN IF r.found THEN [found |-> TRUE, path |-> <<i>> \o r.path]
          ELSE FirstInChildren(kids, i + 1, name)

\* Object3D.remove(obj): removes obj only if it is one of the node's own children
remove(node, r) ==
  IF r.found /\ Len(r.path) = 1
  THEN [node EXCEPT !.children =
          [i \in 1..(Len(@) - 1) |-> IF i < r.path[1] THEN @[i] ELSE @[i + 1]]]
  ELSE node

\* the node at the end of a path of child indices gets the orientation q
RECURSIVE SetQuaternionAt(_, _, _)
SetQuaternionAt(node, path, q) ==
  IF path = <<>> THEN [node EXCEPT !.quaternion = q]
  ELSE [node EXCEPT !.children[Head(path)] = SetQuaternionAt(@, Tail(path), q)]

\* AnimationMixer.update(delta) with the clip playing: the node the clip is bound
\* to (the first node of that name under the mixer's root, the root included)
\* takes the orientation of the clip at the mixer's time; a clip bound to no
\* node of the graph changes nothing
mixerUpdate(node, clip, key) ==
  LET r == getObjectByName(node, clip)
  IN IF r.found
     THEN SetQuaternionAt(node, r.path, [base |-> key, rots |-> <<>>])
     ELSE node

\* Object3D.add(obj)
add(node, obj) == [node EXCEPT !.children = Append(@, obj)]

(***************************************************************************)
(* The traversals of _updateModo: the callback runs on the node, then the  *)
(* traversal descends into the node's children as they are after it.       *)
(***************************************************************************)
RECURSIVE TraverseAddWireframe(_)
TraverseAddWireframe(node) ==
  LET n1 == IF isMesh(node) THEN add(node, LineSegments(node.geometry)) ELSE node
  IN [n1 EXCEPT !.children = [i \in 1..Len(@) |-> TraverseAddWireframe(@[i])]]

RECURSIVE TraverseRemoveWireframe(_)
TraverseRemoveWireframe(node) ==
  LET n1 == IF isMesh(node) THEN remove(node, getObjectByName(node, "wireframe")) ELSE node
  IN [n1 EXCEPT !.children = [i \in 1..Len(@) |-> TraverseRemoveWireframe(@[i])]]

RECURSIVE TraverseSetMaterial(_, _, _)
TraverseSetMaterial(node, transparent, opacity) ==
  LET n1 == IF isMesh(node)
            THEN [node EXCEPT !.material.transparent = transparent,
                              !.material.opacity = opacity]
            ELSE node
  IN [n1 EXCEPT !.children =
        [i \in 1..Len(@) |-> TraverseSetMaterial(@[i], transparent, opacity)]]

(***************************************************************************)
(* class Model.  An instance is the record of its fields.                  *)
(***************************************************************************)
\* constructor
NewModel ==
  [object |-> Object3D,
   vista |-> VISTAS.FRONTAL,
   modo |-> [sombreado |-> TRUE, alambre |-> FALSE, transperante |-> FALSE, bordes |-> FALSE],
   modoOldState |-> [sombreado |-> TRUE, alambre |-> FALSE, transperante |-> FALSE,
                     bordes |-> FALSE],
   viewChange |-> FALSE]

\* set object (obj)
\* Mutant of setObject: assigning the object also resets the snapshot
setObject_ResetsSnapshot(this, obj) ==
  [this EXCEPT !.object = obj,
               !.modoOldState = [sombreado |-> TRUE, alambre |-> FALSE,
                                 transperante |-> FALSE, bordes |-> FALSE]]

setObject(this, obj) == [this EXCEPT !.object = obj]

\* set vista (orientation)
setVista(this, orientation) == [this EXCEPT !.vista = orientation, !.viewChange = TRUE]

\* Mutant of setAlambre: the flag, once set, stays set
setAlambre_Sticky(this, boolean) ==
  [this EXCEPT !.modo.alambre = @ \/ boolean]

\* set alambre (boolean)
setAlambre(this, boolean) == [this EXCEPT !.modo.alambre = boolean]

\* set transparente (boolean)
setTransparente(this, boolean) == [this EXCEPT !.modo.transperante = boolean]

\* set sombreado (boolean)
setSombreado(this, boolean) == [this EXCEPT !.modo.sombreado = boolean]

\* Mutant of updateRotation: the dirty flag is not cleared
updateRotation_KeepsDirty(this, camera) ==
  IF this.viewChange
  THEN LET o0 == lookAt(this.object, camera)
           o1 == rotateOnAxis(o0, "X", Number(this.vista.x))
           o2 == rotateOnAxis(o1, "Y", Number(this.vista.y))
           o3 == rotateOnAxis(o2, "Z", Number(this.vista.z))
       IN [this EXCEPT !.object = o3]
  ELSE this

\* _updateRotation (camera): the angles handed to rotateOnAxis are the vista's
\* components as stored
updateRotation(this, camera) ==
  IF this.viewChange
  THEN LET o0 == lookAt(this.object, camera)
           o1 == rotateOnAxis(o0, "X", Number(this.vista.x))
           o2 == rotateOnAxis(o1, "Y", Number(this.vista.y))
           o3 == rotateOnAxis(o2, "Z", Number(this.vista.z))
       IN [this EXCEPT !.object = o3, !.viewChange = FALSE]
  ELSE this

\* Mutant of updateModoAlambre: the applied flag is not recorded
updateModoAlambre_NoSnapshot(this) ==
  IF this.modo.alambre # this.modoOldState.alambre
  THEN [this EXCEPT
          !.object = IF this.modo.alambre THEN TraverseAddWireframe(@)
                     ELSE TraverseRemoveWireframe(@)]
  ELSE this

\* _updateModo, first block: the wireframe overlay
updateModoAlambre(this) ==
  IF this.modo.alambre # this.modoOldState.alambre
  THEN [this EXCEPT
          !.object = IF this.modo.alambre THEN TraverseAddWireframe(@)
                     ELSE TraverseRemoveWireframe(@),
          !.modoOldState.alambre = this.modo.alambre]
  ELSE this

\* Mutant of updateModoTransperante: switching transparency off restores opacity 1
updateModoTransperante_OffOpaque(this) ==
  IF this.modo.transperante # this.modoOldState.transperante /\ this.modo.sombreado
  THEN [this EXCEPT
          !.object = IF this.modo.transperante THEN TraverseSetMaterial(@, TRUE, "0.4")
                     ELSE TraverseSetMaterial(@, FALSE, "1"),
          !.modoOldState.transperante = this.modo.transperante]
  ELSE this

\* Mutant of updateModoTransperante: the sombreado guard is missing
updateModoTransperante_NoGuard(this) ==
  IF this.modo.transperante # this.modoOldState.transperante
  THEN [this EXCEPT
          !.object = IF this.modo.transperante THEN TraverseSetMaterial(@, TRUE, "0.4")
                     ELSE TraverseSetMaterial(@, FALSE, "0"),
          !.modoOldState.transperante = this.modo.transperante]
  ELSE this

\* _updateModo, second block: transparency, only while sombreado is set
updateModoTransperante(this) ==
  IF this.modo.transperante # this.modoOldState.transperante /\ this.modo.sombreado
  THEN [this EXCEPT
          !.object = IF this.modo.transperante THEN TraverseSetMaterial(@, TRUE, "0.4")
                     ELSE TraverseSetMaterial(@, FALSE, "0"),
          !.modoOldState.transperante = this.modo.transperante]
  ELSE this

\* Mutant of updateModoSombreado: switching shading on resets the transparency
\* snapshot as well
updateModoSombreado_OnAlsoResets(this) ==
  IF this.modo.sombreado # this.modoOldState.sombreado
  THEN IF ~this.modo.sombreado
       THEN [this EXCEPT
               !.object = TraverseSetMaterial(@, TRUE, "0"),
               !.modoOldState.transperante = FALSE,
               !.modoOldState.sombreado = this.modo.sombreado]
       ELSE [this EXCEPT
               !.object = TraverseSetMaterial(@, FALSE, "1"),
               !.modoOldState.transperante = FALSE,
               !.modoOldState.sombreado = this.modo.sombreado]
  ELSE this

\* Mutant of updateModoSombreado: switching shading off does not reset the
\* transparency snapshot
updateModoSombreado_NoReset(this) ==
  IF this.modo.sombreado # this.modoOldState.sombreado
  THEN IF ~this.modo.sombreado
       THEN [this EXCEPT
               !.object = TraverseSetMaterial(@, TRUE, "0"),
               !.modoOldState.sombreado = this.modo.sombreado]
       ELSE [this EXCEPT
               !.object = TraverseSetMaterial(@, FALSE, "1"),
               !.modoOldState.sombreado = this.modo.sombreado]
  ELSE this

\* _updateModo, third block: shading
updateModoSombreado(this) ==
  IF this.modo.sombreado # this.modoOldState.sombreado
  THEN IF ~this.modo.sombreado
       THEN [this EXCEPT
               !.object = TraverseSetMaterial(@, TRUE, "0"),
               !.modoOldState.transperante = FALSE,
               !.modoOldState.sombreado = this.modo.sombreado]
       ELSE [this EXCEPT
               !.object = TraverseSetMaterial(@, FALSE, "1"),
               !.modoOldState.sombreado = this.modo.sombreado]
  ELSE this

\* Mutant of updateModo: the shading block runs before the transparency block
updateModo_ShadingFirst(this) ==
  updateModoTransperante(updateModoSombreado(updateModoAlambre(this)))

\* _updateModo (scene)
updateModo(this) == updateModoSombreado(updateModoTransperante(updateModoAlambre(this)))

\* updateModel (scene, camera)
updateModel(this, camera) == updateModo(updateRotation(this, camera))

(***************************************************************************)
(* Measures of the scene graph.                                            *)
(***************************************************************************)
IsOverlay(node) == node.type = "LineSegments"

Overlays(node) == {i \in 1..Len(node.children) : IsOverlay(node.children[i])}

\* every node of the subgraph, the root included
RECURSIVE Nodes(_)
Nodes(node) ==
  {node} \cup UNION {Nodes(node.children[i]) : i \in 1..Len(node.children)}

Meshes(node) == {n \in Nodes(node) : isMesh(n)}

\* the node structure without materials and orientation
RECURSIVE Structure(_)
Structure(node) ==
  [node EXCEPT !.material = NoMaterial, !.quaternion = Identity,
               !.children = [i \in 1..Len(@) |-> Structure(@[i])]]

(***************************************************************************)
(* The state machine.                                                      *)
(***************************************************************************)
This ==
  [object |-> object, vista |-> vista, modo |-> modo, modoOldState |-> modoOldState,
   viewChange |-> viewChange]

Becomes(that) ==
  /\ object' = that.object
  /\ vista' = that.vista
  /\ modo' = that.modo
  /\ modoOldState' = that.modoOldState
  /\ viewChange' = that.viewChange

NoHist == [on |-> FALSE]

\* the Model is used on its own, outside displayModelOnWebpage
NoLoader == [on |-> FALSE]

\* a setter call is appended to the record of writes, up to MaxPending of them
Written(call) ==
  IF hist.on THEN [hist EXCEPT !.pending = Append(@, call)] ELSE hist

CanWrite == hist.on => Len(hist.pending) < MaxPending

Call(op, flag, vec) == [op |-> op, flag |-> flag, vec |-> vec]

Is(that) ==
  /\ object = that.object
  /\ vista = that.vista
  /\ modo = that.modo
  /\ modoOldState = that.modoOldState
  /\ viewChange = that.viewChange

\* a Model just constructed; nothing is loaded yet
Init ==
  /\ Is(NewModel)
  /\ loadState = "pending"
  /\ last = "new"
  /\ wireBase = Structure(Object3D)
  /\ hist = NoHist
  /\ loader = NoLoader

\* the load-completion callback of displayModelOnWebpage: model.lookAt(camera.position),
\* then modelObj.object = model
Loaded(scene, camera) == setObject(NewModel, lookAt(scene, camera))

\* a Model whose scene has just been assigned
InitLoaded ==
  /\ \E scene \in Scenes, camera \in Cameras : Is(Loaded(scene, camera))
  /\ loadState = "loaded"
  /\ last = "object"
  /\ wireBase = Structure(Object3D)
  /\ hist = NoHist
  /\ loader = NoLoader

\* a Model whose scene, of one mesh, has just been assigned, with the writes between
\* two updateModel calls recorded
InitWrites ==
  /\ \E camera \in Cameras :
       /\ Is(Loaded(FlatScene(1), camera))
       /\ hist = [on |-> TRUE, base |-> Loaded(FlatScene(1), camera), pending |-> <<>>]
  /\ loadState = "loaded"
  /\ last = "object"
  /\ wireBase = Structure(Object3D)
  /\ loader = NoLoader

OverlayRoom == \A n \in Meshes(object) : Cardinality(Overlays(n)) < MaxOverlays

LoadComplete ==
  /\ loadState = "pending"
  /\ \E scene \in Scenes, camera \in Cameras :
       Becomes(setObject(This, lookAt(scene, camera)))
  /\ loadState' = "loaded"
  /\ last' = "object"
  /\ UNCHANGED <<wireBase, hist, loader>>

SetVista ==
  /\ CanWrite
  /\ \E orientation \in VistaInputs :
       /\ Becomes(setVista(This, orientation))
       /\ hist' = Written(Call("vista", FALSE, orientation))
  /\ last' = "vista"
  /\ UNCHANGED <<loadState, wireBase, loader>>

SetAlambre ==
  /\ CanWrite
  /\ \E boolean \in BOOLEAN :
       /\ boolean => OverlayRoom
       /\ Becomes(setAlambre(This, boolean))
       /\ hist' = Written(Call("alambre", boolean, VISTAS.FRONTAL))
  /\ last' = "alambre"
  /\ UNCHANGED <<loadState, wireBase, loader>>

SetTransparente ==
  /\ CanWrite
  /\ \E boolean \in BOOLEAN :
       /\ Becomes(setTransparente(This, boolean))
       /\ hist' = Written(Call("transparente", boolean, VISTAS.FRONTAL))
  /\ last' = "transparente"
  /\ UNCHANGED <<loadState, wireBase, loader>>

SetSombreado ==
  /\ CanWrite
  /\ \E boolean \in BOOLEAN :
       /\ Becomes(setSombreado(This, boolean))
       /\ hist' = Written(Call("sombreado", boolean, VISTAS.FRONTAL))
  /\ last' = "sombreado"
  /\ UNCHANGED <<loadState, wireBase, loader>>

\* one frame: modelObj.updateModel(scene, camera)
UpdateModel ==
  /\ \E camera \in Cameras :
       /\ Becomes(updateModel(This, camera))
       /\ hist' = IF hist.on
                  THEN [hist EXCEPT !.base = updateModel(This, camera), !.pending = <<>>]
                  ELSE hist
  /\ wireBase' = IF modo.alambre /\ ~modoOldState.alambre THEN Structure(object)
                 ELSE wireBase
  /\ last' = "updateModel"
  /\ UNCHANGED <<loadState, loader>>

NextLoaded ==
  \/ SetVista
  \/ SetAlambre
  \/ SetTransparente
  \/ SetSombreado
  \/ UpdateModel

Next ==
  \/ LoadComplete
  \/ SetVista
  \/ SetAlambre
  \/ SetTransparente
  \/ SetSombreado
  \/ UpdateModel

\* any order of calls on a Model, from its construction
Spec == Init /\ [][Next]_vars

\* any order of calls on a Model holding a loaded scene
SpecLoaded == InitLoaded /\ [][NextLoaded]_vars

\* the same, recording the writes made between frames
SpecWrites == InitWrites /\ [][NextLoaded]_vars

\* a Model whose scene, of one mesh, has just been assigned
InitOneMesh ==
  /\ \E camera \in Cameras : Is(Loaded(FlatScene(1), camera))
  /\ loadState = "loaded"
  /\ last = "object"
  /\ wireBase = Structure(Object3D)
  /\ hist = NoHist
  /\ loader = NoLoader

\* vista writes and mode writes between frames (the transparency write is left out
\* to keep the liveness check small)
NextFrames ==
  \/ SetVista
  \/ SetAlambre
  \/ SetSombreado
  \/ UpdateModel

\* the frame loop of displayModelOnWebpage: animate reschedules itself on every frame,
\* so updateModel keeps being called
SpecFair == InitOneMesh /\ [][NextFrames]_vars /\ WF_vars(UpdateModel)

(***************************************************************************)
(* displayModelOnWebpage (src/modelLoader.js).  modelObj is the module's   *)
(* Model; the page's event handlers reach it through the setters; the      *)
(* only caller of updateModel is animate.                                  *)
(***************************************************************************)
\* createCamera: camera.position.set(100, 100, 100)
createCamera == "camA"

\* loader.load(...) has been called inside new Promise(...); nothing has answered yet
NewLoader ==
  [on |-> TRUE,
   request |-> "inflight",   \* the request made by loader.load
   attempts |-> 1,           \* calls of loader.load
   promise |-> "pending",    \* loaderPromise
   errors |-> 0,             \* calls of console.error
   started |-> FALSE,        \* animate has been entered through loaderPromise.then
   framePending |-> FALSE,   \* a requestAnimationFrame(animate) callback is due
   clip |-> "none",          \* the node the playing clip is bound to (mixer = {})
   run |-> <<>>]             \* the calls made by the latest run of animate

\* the load-completion callback after the assignment of the object:
\* mixer = new THREE.AnimationMixer(model), the clip 'CubeAction' is played,
\* resolve(model)
onLoad(l, clip) ==
  [l EXCEPT !.request = "loaded", !.clip = clip, !.promise = "resolved"]

\* the load-completion callback when the asset has no clip named 'CubeAction':
\* findByName gives null, clipAction(null) gives null and action.play() throws, after
\* the object was assigned and before resolve(model); GLTFLoader hands the
\* exception to the error callback, which logs it
onLoadThrows(l) == [l EXCEPT !.request = "threw", !.errors = @ + 1]

\* Mutant of onError: the promise is resolved as well
onError_Resolves(l) ==
  [l EXCEPT !.request = "failed", !.errors = @ + 1, !.promise = "resolved"]

\* the error callback: console.error(error)
onError(l) == [l EXCEPT !.request = "failed", !.errors = @ + 1]

\* Mutant of animateDue: animate is started without waiting for the promise
animateDue_NoWait(l) == (~l.started) \/ l.framePending

\* animate is due: through loaderPromise.then(animate), once, when the promise is
\* resolved; afterwards through each requestAnimationFrame(animate)
animateDue(l) == (l.promise = "resolved" /\ ~l.started) \/ l.framePending

\* animate: requestAnimationFrame(animate), clock.getDelta(), mixer.update(delta),
\* modelObj.updateModel(scene, camera), renderer.render(scene, camera)
animate(l) ==
  [l EXCEPT !.started = TRUE, !.framePending = TRUE,
            !.run = <<"requestAnimationFrame", "getDelta", "mixer.update",
                      "updateModel", "render">>]

InitPage ==
  /\ Is(NewModel)
  /\ loadState = "pending"
  /\ last = "new"
  /\ wireBase = Structure(Object3D)
  /\ hist = NoHist
  /\ loader = NewLoader

LoadSucceeds ==
  /\ loader.request = "inflight"
  /\ \E scene \in Scenes : Becomes(setObject(This, lookAt(scene, createCamera)))
  /\ \E clip \in ClipNodes : loader' = onLoad(loader, clip)
  /\ loadState' = "loaded"
  /\ last' = "object"
  /\ UNCHANGED <<wireBase, hist>>

LoadThrows ==
  /\ loader.request = "inflight"
  /\ \E scene \in Scenes : Becomes(setObject(This, lookAt(scene, createCamera)))
  /\ loader' = onLoadThrows(loader)
  /\ loadState' = "loaded"
  /\ last' = "object"
  /\ UNCHANGED <<wireBase, hist>>

LoadFails ==
  /\ loader.request = "inflight"
  /\ loader' = onError(loader)
  /\ last' = "error"
  /\ UNCHANGED <<object, vista, viewChange, modo, modoOldState, loadState, wireBase, hist>>

Animate ==
  /\ animateDue(loader)
  /\ \E key \in ClipKeys :
       Becomes(updateModel([This EXCEPT !.object = mixerUpdate(@, loader.clip, key)],
                           createCamera))
  /\ loader' = animate(loader)
  /\ wireBase' = IF modo.alambre /\ ~modoOldState.alambre THEN Structure(object)
                 ELSE wireBase
  /\ last' = "updateModel"
  /\ UNCHANGED <<loadState, hist>>

NextPage ==
  \/ LoadSucceeds
  \/ LoadThrows
  \/ LoadFails
  \/ Animate
  \/ SetVista
  \/ SetAlambre
  \/ SetTransparente
  \/ SetSombreado

\* one call of displayModelOnWebpage, with the page's handlers writing the flags
SpecPage == InitPage /\ [][NextPage]_vars

(***************************************************************************)
(* Vocabulary of the properties.                                           *)
(***************************************************************************)
HasOverlay(n) == Overlays(n) # {}

AllMaterials(transparent, opacity) ==
  \A n \in Meshes(object) :
    n.material.transparent = transparent /\ n.material.opacity = opacity

AllTransparency(transparent) ==
  \A n \in Meshes(object) : n.material.transparent = transparent

\* each mesh's material, by mesh name
MeshMaterials(node) == {<<n.name, n.material>> : n \in Meshes(node)}

HasMesh == Meshes(object) # {}

ModeSetters == {"alambre", "transparente", "sombreado"}

(***************************************************************************)
(* C1.  modoOldState describes what is realized on the scene graph: its    *)
(* alambre flag is set exactly when every mesh carries an overlay (and no  *)
(* mesh carries one when it is clear); sombreado clear means every         *)
(* material is transparent with opacity 0; sombreado and transperante set  *)
(* mean transparent with opacity 0.4; sombreado set and transperante clear *)
(* mean non-transparent.                                                   *)
(***************************************************************************)
C1_SnapshotRealized ==
  /\ modoOldState.alambre => \A n \in Meshes(object) : HasOverlay(n)
  /\ ~modoOldState.alambre => \A n \in Meshes(object) : ~HasOverlay(n)
  /\ ~modoOldState.sombreado => AllMaterials(TRUE, "0")
  /\ (modoOldState.sombreado /\ modoOldState.transperante) => AllMaterials(TRUE, "0.4")
  /\ (modoOldState.sombreado /\ ~modoOldState.transperante) => AllTransparency(FALSE)

(***************************************************************************)
(* C2.  As claimed: right after every updateModel, modoOldState equals     *)
(* modo on alambre, transperante and sombreado.                            *)
(***************************************************************************)
C2_SnapshotEqualsModo ==
  last = "updateModel" =>
    /\ modoOldState.alambre = modo.alambre
    /\ modoOldState.transperante = modo.transperante
    /\ modoOldState.sombreado = modo.sombreado

(***************************************************************************)
(* C2, amended.  Right after every updateModel, modoOldState equals modo   *)
(* on alambre and sombreado; on transperante it equals modo while          *)
(* sombreado is set, and is FALSE while sombreado is clear.                *)
(***************************************************************************)
C2_SnapshotEqualsModoWhileShaded ==
  last = "updateModel" =>
    /\ modoOldState.alambre = modo.alambre
    /\ modoOldState.sombreado = modo.sombreado
    /\ modo.sombreado => modoOldState.transperante = modo.transperante
    /\ ~modo.sombreado => modoOldState.transperante = FALSE

C2_Witness ==
  /\ last = "updateModel"
  /\ HasMesh
  /\ ~modo.sombreado
  /\ modo.transperante
  /\ ~modoOldState.transperante

(***************************************************************************)
(* C3.  The updateModel pass that turns shading back on, with              *)
(* transperante set meanwhile, ends with every mesh material transparent   *)
(* with opacity 0.4.                                                       *)
(***************************************************************************)
C3_PendingTransparencyApplied ==
  [][(/\ last' = "updateModel"
      /\ ~modoOldState.sombreado
      /\ modo.sombreado
      /\ modo.transperante)
     => \A n \in Meshes(object') :
          n.material.transparent /\ n.material.opacity = "0.4"]_vars

(***************************************************************************)
(* C4.  In every updateModel pass made while modo.sombreado is clear, the  *)
(* transparency block changes nothing; when no shading transition is due   *)
(* either, the pass leaves every mesh material and                         *)
(* modoOldState.transperante as they were, whatever modo.transperante is.  *)
(***************************************************************************)
C4_TransparencySuppressed ==
  [][(last' = "updateModel" /\ ~modo.sombreado)
     => /\ \A camera \in Cameras :
             LET before == updateModoAlambre(updateRotation(This, camera))
             IN updateModoTransperante(before) = before
        /\ ~modoOldState.sombreado =>
             /\ MeshMaterials(object') = MeshMaterials(object)
             /\ modoOldState'.transperante = modoOldState.transperante]_vars

C4_Witness ==
  /\ last = "updateModel"
  /\ HasMesh
  /\ ~modo.sombreado
  /\ ~modoOldState.sombreado
  /\ modo.transperante # modoOldState.transperante
  /\ AllMaterials(TRUE, "0")

(***************************************************************************)
(* C5.  updateModel is idempotent: in the state an updateModel call        *)
(* leaves, another call, with any camera, changes no field of the Model    *)
(* and no node of the scene graph.                                         *)
(***************************************************************************)
C5_UpdateIdempotent ==
  last = "updateModel" => \A camera \in Cameras : updateModel(This, camera) = This

C5_Witness ==
  /\ last = "updateModel"
  /\ loadState = "loaded"
  /\ \E n \in Meshes(object) : HasOverlay(n)
  /\ object.quaternion.rots # <<>>
  /\ AllMaterials(TRUE, "0.4")

(***************************************************************************)
(* C6.  Last write wins.  A setter call changes neither the scene graph    *)
(* nor modoOldState, and the state an updateModel call leaves is the one   *)
(* it leaves when, since the previous updateModel, each flag (and the      *)
(* vista) that was written at all was written once, with its final value.  *)
(***************************************************************************)
CallsOf(pending, op) == {i \in 1..Len(pending) : pending[i].op = op}

IsWritten(pending, op) == CallsOf(pending, op) # {}

FinalCall(pending, op) ==
  pending[CHOOSE i \in CallsOf(pending, op) : \A j \in CallsOf(pending, op) : j <= i]

\* base with the final value of every written flag, and the final vista, written once
NetWrites(base, pending) ==
  [base EXCEPT
     !.modo.alambre =
        IF IsWritten(pending, "alambre") THEN FinalCall(pending, "alambre").flag ELSE @,
     !.modo.transperante =
        IF IsWritten(pending, "transparente") THEN FinalCall(pending, "transparente").flag
        ELSE @,
     !.modo.sombreado =
        IF IsWritten(pending, "sombreado") THEN FinalCall(pending, "sombreado").flag ELSE @,
     !.vista = IF IsWritten(pending, "vista") THEN FinalCall(pending, "vista").vec ELSE @,
     !.viewChange = IF IsWritten(pending, "vista") THEN TRUE ELSE @]

C6_LastWriteWins ==
  [][/\ last' \in ModeSetters \cup {"vista"} =>
          /\ object' = object
          /\ modoOldState' = modoOldState
     /\ last' = "updateModel" =>
          \E camera \in Cameras :
            This' = updateModel(NetWrites(hist.base, hist.pending), camera)]_vars

\* a flag written twice with different values since the previous updateModel
C6_Witness ==
  /\ hist.on
  /\ HasMesh
  /\ \E i, j \in 1..Len(hist.pending) :
       /\ i < j
       /\ hist.pending[i].op = "alambre"
       /\ hist.pending[j].op = "alambre"
       /\ hist.pending[i].flag # hist.pending[j].flag
       /\ hist.pending[i].flag # hist.base.modo.alambre

(***************************************************************************)
(* C7.  An updateModel call made before the loaded scene is assigned       *)
(* changes nothing: the object, viewChange and modoOldState keep their     *)
(* values, so what was set before the load is still pending afterwards.    *)
(***************************************************************************)
C7_UpdateSkippedBeforeLoad ==
  [][(last' = "updateModel" /\ loadState = "pending")
     => /\ object' = object
        /\ viewChange' = viewChange
        /\ modoOldState' = modoOldState]_vars

(***************************************************************************)
(* C8.  viewChange is set exactly by a vista write and cleared exactly by  *)
(* the reconciliation that applies it: the vista setter stores the target  *)
(* and sets viewChange without touching the object; updateModel with       *)
(* viewChange set faces the object to the camera and clears viewChange;    *)
(* updateModel with viewChange clear leaves the orientation alone; the     *)
(* mode setters leave both alone.  While the frame loop keeps running,     *)
(* every vista write is eventually reconciled.                             *)
(***************************************************************************)
C8_ViewChangeTracksVista ==
  /\ [][/\ last' = "vista" =>
             /\ viewChange'
             /\ vista' \in VistaInputs
             /\ object' = object
        /\ (last' = "updateModel" /\ viewChange) =>
             /\ ~viewChange'
             /\ object'.quaternion.base \in Cameras
             /\ vista' = vista
        /\ (last' = "updateModel" /\ ~viewChange) =>
             /\ ~viewChange'
             /\ object'.quaternion = object.quaternion
        /\ last' \in ModeSetters =>
             /\ viewChange' = viewChange
             /\ object' = object]_vars
  /\ (viewChange ~> ~viewChange)

C8_Witness ==
  /\ last = "updateModel"
  /\ ~viewChange
  /\ vista = VISTAS.ARRIBA
  /\ object.quaternion.rots # <<>>

(***************************************************************************)
(* C9.  Orientation does not accumulate: whenever no vista write is        *)
(* pending, the object's orientation is the face-the-camera baseline       *)
(* followed by the rotations about X, then Y, then Z of the current vista  *)
(* alone (a zero component contributing no rotation), whatever vistas      *)
(* were applied before.                                                    *)
(***************************************************************************)
\* the rotations of a vista, in axis order, as (axis, component) pairs
AxisTurns(v) ==
  (IF v.x = 0 THEN <<>> ELSE <<[axis |-> "X", by |-> v.x]>>)
    \o (IF v.y = 0 THEN <<>> ELSE <<[axis |-> "Y", by |-> v.y]>>)
    \o (IF v.z = 0 THEN <<>> ELSE <<[axis |-> "Z", by |-> v.z]>>)

\* the rotations an orientation carries after its baseline, as (axis, magnitude) pairs
Turns(q) == [i \in 1..Len(q.rots) |-> [axis |-> q.rots[i].axis, by |-> q.rots[i].angle.coef]]

C9_OrientationFromLatestVista ==
  ~viewChange =>
    /\ object.quaternion.base \in Cameras
    /\ Turns(object.quaternion) = AxisTurns(vista)

C9_Witness ==
  /\ last = "updateModel"
  /\ ~viewChange
  /\ vista = VISTAS.ISOMETRICA
  /\ Turns(object.quaternion) = <<[axis |-> "X", by |-> 30], [axis |-> "Y", by |-> 30]>>

(***************************************************************************)
(* C10.  The wireframe toggle is reversible: the updateModel pass that     *)
(* switches the overlay off leaves every node with the children it had     *)
(* just before the pass that switched the overlay on.                      *)
(***************************************************************************)
C10_WireframeReversible ==
  [][(last' = "updateModel" /\ modoOldState.alambre /\ ~modo.alambre)
     => Structure(object') = wireBase]_vars

(***************************************************************************)
(* C11.  After an asset-load failure the error has been logged, once; the  *)
(* load has not been tried again; the load promise is still pending; the   *)
(* frame loop has not been started and updateModel has not been called;    *)
(* the model still has the constructor's placeholder.  The promise stays   *)
(* pending and the loop unstarted as well when the error callback runs     *)
(* because the load-completion callback threw.  This holds in every state  *)
(* after the failure.                                                      *)
(***************************************************************************)
C11_LoadFailureOnlyLogged ==
  /\ loader.request \in {"failed", "threw"} =>
       /\ loader.errors = 1
       /\ loader.attempts = 1
       /\ loader.promise = "pending"
       /\ ~loader.started
       /\ ~loader.framePending
       /\ loader.run = <<>>
       /\ last # "updateModel"
       /\ modoOldState = NewModel.modoOldState
  /\ loader.request = "failed" =>
       /\ loadState = "pending"
       /\ object = NewModel.object

\* the load has failed and a flag written afterwards is still waiting
C11_Witness ==
  /\ loader.request = "failed"
  /\ last = "alambre"
  /\ modo.alambre
  /\ ~modoOldState.alambre

(***************************************************************************)
(* C12.  The angle of each axis rotation made by the reconciliation is the *)
(* radian conversion (degrees * pi / 180) of the vista's component on that *)
(* axis.                                                                   *)
(***************************************************************************)
Component(v, axis) == IF axis = "X" THEN v.x ELSE IF axis = "Y" THEN v.y ELSE v.z

C12_AnglesInRadians ==
  ~viewChange =>
    \A i \in 1..Len(object.quaternion.rots) :
      LET r == object.quaternion.rots[i]
      IN r.angle = degreesToRadians(Number(Component(vista, r.axis)))

(***************************************************************************)
(* C13.  Within one pass the transparency block runs before the shading    *)
(* block and its guard reads modo.sombreado.  In a pass where shading goes *)
(* on -> off with a transparency write pending, the transparency block     *)
(* does not fire and the materials are those the shading-off block writes; *)
(* in a pass where shading goes off -> on with a transparency write        *)
(* pending, the transparency block fires (the snapshot takes the written   *)
(* value) and the shading-on block, firing after it, decides the           *)
(* materials.                                                              *)
(***************************************************************************)
C13_TransparencyBeforeShading ==
  [][(last' = "updateModel" /\ modo.transperante # modoOldState.transperante)
     => /\ (modoOldState.sombreado /\ ~modo.sombreado) =>
             /\ \A camera \in Cameras :
                  LET before == updateModoAlambre(updateRotation(This, camera))
                  IN updateModoTransperante(before) = before
             /\ \A n \in Meshes(object') :
                  n.material.transparent /\ n.material.opacity = "0"
             /\ modoOldState'.transperante = FALSE
        /\ (~modoOldState.sombreado /\ modo.sombreado) =>
             /\ modoOldState'.transperante = modo.transperante
             /\ \A n \in Meshes(object') :
                  ~n.material.transparent /\ n.material.opacity = "1"]_vars

\* the state a shading off -> on pass with a pending transparency write leaves
C13_Witness ==
  /\ last = "updateModel"
  /\ HasMesh
  /\ modoOldState.sombreado
  /\ modoOldState.transperante
  /\ AllMaterials(FALSE, "1")

(***************************************************************************)
(* C14.  A shading transition on -> off leaves every mesh material         *)
(* transparent with opacity 0, modoOldState.sombreado FALSE and            *)
(* modoOldState.transperante FALSE; a shading transition off -> on leaves  *)
(* every mesh material non-transparent with opacity 1 and                  *)
(* modoOldState.sombreado TRUE, the shading block leaving                  *)
(* modoOldState.transperante as it found it.                               *)
(***************************************************************************)
C14_ShadingTransitions ==
  [][(last' = "updateModel" /\ modo.sombreado # modoOldState.sombreado)
     => /\ ~modo.sombreado =>
             /\ \A n \in Meshes(object') :
                  n.material.transparent /\ n.material.opacity = "0"
             /\ ~modoOldState'.sombreado
             /\ ~modoOldState'.transperante
        /\ modo.sombreado =>
             /\ \A n \in Meshes(object') :
                  ~n.material.transparent /\ n.material.opacity = "1"
             /\ modoOldState'.sombreado
             /\ \A camera \in Cameras :
                  LET before ==
                        updateModoTransperante(updateModoAlambre(updateRotation(This, camera)))
                  IN updateModoSombreado(before).modoOldState.transperante
                       = before.modoOldState.transperante]_vars

\* shading has just been switched off while transparency was applied
C14_Witness ==
  /\ last = "updateModel"
  /\ HasMesh
  /\ ~modoOldState.sombreado
  /\ ~modo.sombreado
  /\ modo.transperante
  /\ ~modoOldState.transperante
  /\ ~modo.alambre
  /\ AllMaterials(TRUE, "0")

(***************************************************************************)
(* C15.  While shading is and stays enabled, a transparency transition     *)
(* off -> on leaves every mesh material transparent with opacity 0.4, and  *)
(* a transition on -> off leaves every mesh material non-transparent with  *)
(* opacity 0 (not 1, the opacity of a freshly shaded one).                 *)
(***************************************************************************)
C15_TransparencyTransitions ==
  [][(/\ last' = "updateModel"
      /\ modo.sombreado
      /\ modoOldState.sombreado
      /\ modo.transperante # modoOldState.transperante)
     => /\ modoOldState'.transperante = modo.transperante
        /\ modo.transperante =>
             \A n \in Meshes(object') :
               n.material.transparent /\ n.material.opacity = "0.4"
        /\ ~modo.transperante =>
             \A n \in Meshes(object') :
               ~n.material.transparent /\ n.material.opacity = "0"]_vars

\* shaded, not transparent, and opacity 0: transparency was switched on and off again
C15_Witness ==
  /\ last = "updateModel"
  /\ HasMesh
  /\ modoOldState.sombreado
  /\ ~modoOldState.transperante
  /\ AllMaterials(FALSE, "0")

(***************************************************************************)
(* C16.  On a fixed loaded object, whatever the interleaving of setter     *)
(* calls and updateModel calls, every mesh carries at most one wireframe   *)
(* overlay child.                                                          *)
(***************************************************************************)
C16_AtMostOneOverlay ==
  \A n \in Meshes(object) : Cardinality(Overlays(n)) <= 1

(***************************************************************************)
(* C17.  In displayModelOnWebpage the frame loop starts only after the     *)
(* load-completion callback has assigned the loaded scene to the model's   *)
(* object: every updateModel call finds the object assigned and the        *)
(* promise resolved, and updateModel is called exactly once per scheduled  *)
(* frame.                                                                  *)
(***************************************************************************)
C17_FramesAfterAssignment ==
  /\ [](/\ ~loader.started => loader.run = <<>>
        /\ loader.started =>
             /\ loadState = "loaded"
             /\ loader.promise = "resolved"
             /\ Cardinality({i \in 1..Len(loader.run) :
                               loader.run[i] = "updateModel"}) = 1
             /\ Cardinality({i \in 1..Len(loader.run) :
                               loader.run[i] = "requestAnimationFrame"}) = 1)
  /\ [][last' = "updateModel"
        => /\ loadState = "loaded"
           /\ loader.promise = "resolved"
           /\ (~loader.started \/ loader.framePending)
           /\ loader'.started
           /\ loader'.framePending]_vars

\* frames have run on the loaded scene and reconciled flags written after the load
C17_Witness ==
  /\ last = "updateModel"
  /\ loader.started
  /\ loadState = "loaded"
  /\ HasMesh
  /\ modoOldState.alambre
  /\ modoOldState.transperante
  /\ \E n \in Meshes(object) : n.quaternion.base \in ClipKeys

(***************************************************************************)
(* C18.  Assigning object changes only the object: modo, modoOldState,     *)
(* vista and viewChange are left as they were.  No reconciliation state is *)
(* reset, so an updateModel after the assignment acts only for flags whose *)
(* value differs from the snapshot, even when the snapshot was taken       *)
(* against the previous object: with alambre equal to its snapshot the     *)
(* node structure does not change, and with sombreado and transperante     *)
(* equal to their snapshots no material changes.                           *)
(***************************************************************************)
C18_AssignmentKeepsSnapshot ==
  [][/\ last' = "object" => UNCHANGED <<modo, modoOldState, vista, viewChange>>
     /\ last' = "updateModel" =>
          /\ modo.alambre = modoOldState.alambre =>
               /\ Structure(object') = Structure(object)
               /\ modoOldState'.alambre = modoOldState.alambre
          /\ (/\ modo.sombreado = modoOldState.sombreado
              /\ modo.transperante = modoOldState.transperante) =>
               /\ MeshMaterials(object') = MeshMaterials(object)
               /\ modoOldState'.sombreado = modoOldState.sombreado
               /\ modoOldState'.transperante = modoOldState.transperante]_vars

\* the wireframe snapshot was taken against the placeholder: the loaded scene
\* has been updated with alambre on and carries no overlay
C18_Witness ==
  /\ loadState = "loaded"
  /\ last = "updateModel"
  /\ HasMesh
  /\ modo.alambre
  /\ modoOldState.alambre
  /\ \A n \in Nodes(object) : ~HasOverlay(n)

(***************************************************************************)
(* C19.  Between updateModel calls, each taken as atomic,                  *)
(* modoOldState.sombreado = FALSE implies modoOldState.transperante =      *)
(* FALSE: the transparency snapshot is set only while shading is the       *)
(* applied state.                                                          *)
(***************************************************************************)
C19_TransparencySnapshotNeedsShading ==
  ~modoOldState.sombreado => ~modoOldState.transperante

\* shading is off after an update of a loaded model whose transparent flag is
\* set: the transparency snapshot stays clear
C19_Witness ==
  /\ last = "updateModel"
  /\ loadState = "loaded"
  /\ HasMesh
  /\ ~modoOldState.sombreado
  /\ modo.transperante
  /\ modo.alambre
  /\ AllMaterials(TRUE, "0")

====
